---- MODULE Spec2Model ----
(***************************************************************************)
(* wikimedia_sync.py: copy wiki pages from a source wiki to a destination  *)
(* wiki.  The model follows the script's functions: main, the per-file     *)
(* processFromJSONFile, syncAndModifyPages, syncPagesWithDependances,      *)
(* syncPages / syncPage (with its redirect recursion as an explicit call   *)
(* stack), uploadFiles and modifyPages / modifyPage.  The pywikibot        *)
(* library is the content provider: a page is its title, its text and its  *)
(* redirect target; a provider call may raise.  The messages the script    *)
(* prints are not modelled: the print of an except handler is taken to     *)
(* succeed, and getRedirectTarget is taken to give the target's title.     *)
(***************************************************************************)
EXTENDS Naturals, Sequences, FiniteSets, TLC

\* ---------------------------------------------------------------- bounds
\* Frames of syncPage the interpreter allows before it raises RecursionError.
MaxDepth == 3
\* Longest configured page list ("pages" of the JSON file).
MaxPages == 2
\* Provider errors (exceptions raised by a pywikibot call) in one behaviour.
MaxFaults == 1

\* Longest list of modification rules ("modifications" of the JSON file).
MaxRules == 2
\* Most configuration files on one command line.
MaxFiles == 2

\* ------------------------------------------------------- the two wikis
NoTitle == "-"
\* The text of a page that does not exist (Page.text of a missing page is "").
NoText == <<>>

\* Ordinary pages, a title the library resolves to another site, the category
\* page, a template and a template used by templates.
PageTitles == {"A", "B"}
ForeignTitles == {"fr:X"}
CategoryTitles == {"Category:K"}
TemplateTitles == {"Template:T", "Template:D"}
Titles == PageTitles \cup ForeignTitles \cup CategoryTitles \cup TemplateTitles
\* A file held by the repository both sites share, a file local to src and a
\* file the destination already has.
FileTitles == {"File:F", "File:G", "File:H"}
SharedFiles == {"File:F"}

\* Text already on the destination before the run.
OldText == <<"old", "w">>

\* cat.articles(namespaces=ns, recurse=r)
CategoryArticles(c) == IF c = "Category:K" THEN <<"B">> ELSE <<>>

\* The command line flags of getopt's "hftdu".
Flags == {"-h", "-f", "-t", "-d", "-u"}

DEFAULT_OPTIONS ==
  [force |-> FALSE, templatesSync |-> TRUE, templatesDepSync |-> TRUE,
   filesUpload |-> TRUE]

VARIABLES
  argv,         \* the flags given on the command line
  args,         \* the configuration files given on the command line
  file,         \* main: 1-based position in args
  options,      \* the options dict
  cfg,          \* the JSON file: pages, categories, modifications
  srcRedirect,  \* source wiki: title -> redirect target, or NoTitle
  dst,          \* destination wiki: title -> text, NoText when absent
  dst0,         \* the destination wiki before the run
  dstFiles,     \* destination wiki: file title -> [url, text], or NoFile
  pc,           \* where the program is
  exported,     \* the lists computed and exported so far
  pages, files, templates, dependances,
  batch,        \* syncPages / uploadFiles: the list being iterated
  i,            \* syncPages / uploadFiles: 1-based position in batch
  nbSyncPage,   \* syncPages: the running count
  stack,        \* syncPage: the frames of the redirect recursion
  nbPageSync,   \* syncPagesWithDependances: the sum over the phases
  counts,       \* values returned by the completed syncPages calls, in order
  modIdx,       \* syncAndModifyPages: 1-based position in modifications
  todo,         \* modifyPages: titles of the current rule still to modify
  nbModPage,    \* modifyPages: the running count
  nbMods,       \* syncAndModifyPages: nbMods
  result,       \* (nbPages, nbMods) once syncAndModifyPages has returned
  faults,       \* provider errors raised so far: [pc, at]
  budget,       \* provider errors this behaviour may see
  log           \* destination page writes so far: [title, pc, depth, rule]

cfgVars == <<argv, options, cfg, args, file>>
worldVars == <<srcRedirect, dst0, budget>>
listVars == <<pages, files, templates, dependances, exported>>
loopVars == <<batch, i, nbSyncPage, stack>>
modVars == <<modIdx, todo, nbModPage, nbMods>>

vars == <<cfgVars, worldVars, listVars, loopVars, modVars, dst, dstFiles, pc,
          nbPageSync, counts, result, faults, log>>

\* ------------------------------------------------------------- helpers
Range(s) == {s[k] : k \in DOMAIN s}
Seqs(S, n) == UNION {[1..k -> S] : k \in 0..n}
\* list(set(...)): the titles of S in an order the interpreter chooses
ListsOf(S) == {s \in [1..Cardinality(S) -> S] : Range(s) = S}

\* Page(src, t).text: a redirect page holds the redirect marker.
SrcText(t) ==
  IF srcRedirect[t] # NoTitle THEN <<"#REDIRECT", srcRedirect[t]>>
  ELSE <<t, "w">>

\* Page(siteSrc, p).templates(): a redirect page transcludes nothing
SrcTemplates(p) ==
  CASE srcRedirect[p] # NoTitle -> {}
    [] p = "A" -> {"Template:T"}
    [] p = "B" -> {"Template:T", "Template:D"}
    [] p = "Template:T" -> {"Template:D"}
    [] OTHER -> {}

\* Page(siteSrc, p).imagelinks()
SrcImages(p) ==
  CASE srcRedirect[p] # NoTitle -> {}
    [] p = "A" -> {"File:F", "File:G"}
    [] p = "B" -> {"File:H"}
    [] OTHER -> {}

\* Mutant of Exists: the existence seen before the run, never refreshed.
ExistsStale(t) == dst0[t] # NoText

\* Mutant of Exists: no page is seen on the destination.
ExistsNever(t) == FALSE

\* Page(dst, t).exists()
Exists(t) == dst[t] # NoText

\* Page(dst, t).site == dst
SameSite(t) == t \notin ForeignTitles

\* Whether the next provider call raises.
Fault == {FALSE} \cup (IF Len(faults) < budget THEN {TRUE} ELSE {})
Count(f, at) == IF f THEN Append(faults, [pc |-> pc, at |-> at]) ELSE faults

\* An exception no handler of the run catches reaches the handler of
\* processFromJSONFile ("Program exit with error").
Abort ==
  /\ pc' = "aborted"
  /\ stack' = <<>>

\* ----------------------------------------------------------------- main
\* for (opt, arg) in opts: ... (lines 456-469)
ParseArgs(flags) ==
  [force |-> "-f" \in flags,
   templatesSync |-> "-t" \notin flags,
   templatesDepSync |-> "-d" \notin flags,
   filesUpload |-> "-u" \notin flags]

\* Mutant of Coherence: the options are left as parsed.
CoherenceNone(o) == o

\* check coherence, fix if needed (lines 471-473)
Coherence(o) ==
  IF o.templatesDepSync /\ ~o.templatesSync
  THEN [o EXCEPT !.templatesSync = TRUE]
  ELSE o

Main ==
  /\ pc = "main"
  /\ IF "-h" \in argv
     THEN /\ pc' = "exit"           \* print(__doc__); sys.exit(0)
          /\ options' = options
     ELSE /\ pc' = "process"
          /\ options' = Coherence(ParseArgs(argv))
  /\ UNCHANGED <<argv, cfg, args, file, worldVars, listVars, loopVars, modVars,
                 dst, dstFiles,
                 nbPageSync, counts, result, faults, log>>

\* -------------------------------------------------- processFromJSONFile
\* cfg = json.load(jsonfile); the keys of cfg; syncAndModifyPages(...).
\* A file that is no JSON, or lacks one of the keys read at lines 411-420,
\* ends in the handler of line 425 or 427.
ProcessFromJSONFile ==
  /\ pc = "process"
  /\ IF args[file].kind = "ok"
     THEN /\ cfg' = args[file].cfg
          /\ pc' = "sync"
     ELSE /\ cfg' = cfg
          /\ pc' = "aborted"
  /\ UNCHANGED <<argv, options, args, file, worldVars, listVars, loopVars,
                 modVars, dst,
                 dstFiles, nbPageSync, counts, result, faults, log>>

\* --------------------------------------------------- syncAndModifyPages
\* pages += [cat.title()] ; pages += mapTitle(cat.articles(...))
RECURSIVE ExpandCategories(_)
ExpandCategories(cats) ==
  IF cats = <<>> THEN <<>>
  ELSE <<Head(cats)>> \o CategoryArticles(Head(cats))
         \o ExpandCategories(Tail(cats))

\* siteDst.login(), then the page list (lines 350-372)
SyncAndModifyPages ==
  /\ pc = "sync"
  /\ \E f \in Fault :
       /\ faults' = Count(f, "login")
       /\ IF f
          THEN /\ Abort
               /\ pages' = pages
          ELSE /\ pages' = cfg.pages \o ExpandCategories(cfg.categories)
               /\ pc' = "getFiles"
               /\ stack' = stack
  /\ UNCHANGED <<cfgVars, worldVars, files, templates, dependances, exported,
                 batch, i, nbSyncPage, modVars, dst, dstFiles, nbPageSync,
                 counts, result, log>>

\* --------------------------------------------- syncPagesWithDependances
\* getTemplatesFromPages(siteSrc, l), as the set that list(set(...)) holds
GetTemplatesFromPages(l) == UNION {SrcTemplates(p) : p \in Range(l)}
\* getFilesFromPages(siteSrc, l)
GetFilesFromPages(l) == UNION {SrcImages(p) : p \in Range(l)}

\* exportPagesTitle(pages); if filesUpload: files = getFilesFromPages(...)
GetFiles ==
  /\ pc = "getFiles"
  /\ \E f \in Fault :
       /\ faults' = Count(f, "imagelinks")
       /\ IF f /\ options.filesUpload /\ pages # <<>>
          THEN /\ Abort
               /\ exported' = exported \cup {"pages"}
               /\ files' = files
          ELSE /\ ~f
               /\ pc' = "getTemplates"
               /\ stack' = stack
               /\ IF options.filesUpload
                  THEN /\ files' = GetFilesFromPages(pages)
                       /\ exported' = exported \cup {"pages", "files"}
                  ELSE /\ files' = files
                       /\ exported' = exported \cup {"pages"}
  /\ UNCHANGED <<cfgVars, worldVars, pages, templates, dependances, batch, i,
                 nbSyncPage, modVars, dst, dstFiles, nbPageSync, counts,
                 result, log>>

\* if templatesSync: templates = getTemplatesFromPages(siteSrc, pages)
GetTemplates ==
  /\ pc = "getTemplates"
  /\ \E f \in Fault :
       /\ faults' = Count(f, "templates")
       /\ IF f /\ options.templatesSync /\ pages # <<>>
          THEN /\ Abort
               /\ UNCHANGED <<templates, exported>>
          ELSE /\ ~f
               /\ pc' = "getDependances"
               /\ stack' = stack
               /\ IF options.templatesSync
                  THEN /\ templates' = GetTemplatesFromPages(pages)
                       /\ exported' = exported \cup {"templates"}
                  ELSE UNCHANGED <<templates, exported>>
  /\ UNCHANGED <<cfgVars, worldVars, pages, files, dependances, batch, i,
                 nbSyncPage, modVars, dst, dstFiles, nbPageSync, counts,
                 result, log>>

\* if templatesDepSync: dependances = getTemplatesFromPages(siteSrc, templates)
\* `templates` is unbound (NameError) when templatesSync was off.
GetDependances ==
  /\ pc = "getDependances"
  /\ \E f \in Fault :
       /\ faults' = Count(f, "templates")
       /\ IF options.templatesDepSync /\ "templates" \notin exported
          THEN /\ ~f
               /\ Abort
               /\ UNCHANGED <<dependances, exported>>
          ELSE IF f /\ options.templatesDepSync /\ templates # {}
          THEN /\ Abort
               /\ UNCHANGED <<dependances, exported>>
          ELSE /\ ~f
               /\ pc' = "syncAll"
               /\ stack' = stack
               /\ IF options.templatesDepSync
                  THEN /\ dependances' =
                            UNION {SrcTemplates(p) : p \in templates}
                       /\ exported' = exported \cup {"dependances"}
                  ELSE UNCHANGED <<dependances, exported>>
  /\ UNCHANGED <<cfgVars, worldVars, pages, files, templates, batch, i,
                 nbSyncPage, modVars, dst, dstFiles, nbPageSync, counts,
                 result, log>>

\* Mutant of StageOrder: the pages are synced before what they depend on.
StageOrderPagesFirst ==
  <<"pages", "dependances", "templates", "files", "applyMods">>

\* The stages of lines 304-329 and of lines 377-397, in program order.
StageOrder == <<"dependances", "templates", "pages", "files", "applyMods">>

StageOn(s) ==
  CASE s = "dependances" -> options.templatesDepSync
    [] s = "templates" -> options.templatesSync
    [] s = "files" -> options.filesUpload
    [] OTHER -> TRUE

RECURSIVE StageFrom(_)
StageFrom(k) ==
  IF StageOn(StageOrder[k]) THEN StageOrder[k] ELSE StageFrom(k + 1)

StageAfter(s) ==
  StageFrom((CHOOSE k \in DOMAIN StageOrder : StageOrder[k] = s) + 1)

\* The list a stage iterates; a list made by list(set(...)) comes in an order
\* the interpreter chooses.
ListsFor(s) ==
  CASE s = "dependances" -> ListsOf(dependances)
    [] s = "templates" -> ListsOf(templates)
    [] s = "pages" -> {pages}
    [] s = "files" -> ListsOf(files)
    [] OTHER -> {<<>>}

Enter(s) ==
  /\ pc' = s
  /\ batch' \in ListsFor(s)
  /\ i' = 1
  /\ nbSyncPage' = 0

\* nbPageSync = 0, then the first enabled sync phase
SyncAll ==
  /\ pc = "syncAll"
  /\ nbPageSync' = 0
  /\ Enter(StageFrom(1))
  /\ UNCHANGED <<cfgVars, worldVars, listVars, stack, modVars, dst, dstFiles,
                 counts, result, faults, log>>

\* ------------------------------------------------------------ syncPages
InSyncPages == pc \in {"first", "second", "dependances", "templates", "pages"}

\* for i,p in enumerate(pages): syncPage(src,dst,p,force)
SyncPagesCall ==
  /\ InSyncPages
  /\ stack = <<>>
  /\ i <= Len(batch)
  /\ stack' = <<[title |-> batch[i], at |-> "check"]>>
  /\ UNCHANGED <<cfgVars, worldVars, listVars, batch, i, nbSyncPage, modVars,
                 dst, dstFiles, pc, nbPageSync, counts, result, faults, log>>

\* return nbSyncPage, to nbPageSync += ... of syncPagesWithDependances
SyncPagesReturn ==
  /\ pc \in {"dependances", "templates", "pages"}
  /\ stack = <<>>
  /\ i > Len(batch)
  /\ nbPageSync' = nbPageSync + nbSyncPage
  /\ counts' = Append(counts, nbSyncPage)
  /\ Enter(StageAfter(pc))
  /\ UNCHANGED <<cfgVars, worldVars, listVars, stack, modVars, dst, dstFiles,
                 result, faults, log>>

\* ------------------------------------------------------------- syncPage
Top == stack[Len(stack)]

\* Mutant of SyncPageTry: the try block ends before the write.
SyncPageTryNoCopy == {"check", "redirect"}

\* The steps of syncPage that lie inside its try block (lines 162-184).
SyncPageTry == {"check", "redirect", "copy"}

\* An exception raised in frame number `depth` at step `at`: the depth of the
\* frame whose handler catches it, 0 when no frame of syncPage does.  A callee
\* runs at its caller's line 173, which is the caller's "redirect" step.
RECURSIVE Catcher(_, _)
Catcher(depth, at) ==
  IF at \in SyncPageTry THEN depth
  ELSE IF depth = 1 THEN 0
  ELSE Catcher(depth - 1, "redirect")

\* Mutant of Return: the result of a callee is counted too.
ReturnCountAll(depth, v) ==
  /\ pc' = pc
  /\ stack' = SubSeq(stack, 1, depth - 1)
  /\ nbSyncPage' = nbSyncPage + (IF v THEN 1 ELSE 0)
  /\ i' = IF depth = 1 THEN i + 1 ELSE i

\* Frame number `depth` of syncPage returns v.  The top-level frame returns to
\* the loop of syncPages, which counts a true result and moves on; a callee
\* returns to line 173, where the result is dropped.
Return(depth, v) ==
  /\ pc' = pc
  /\ stack' = SubSeq(stack, 1, depth - 1)
  /\ IF depth = 1
     THEN /\ nbSyncPage' = nbSyncPage + (IF v THEN 1 ELSE 0)
          /\ i' = i + 1
     ELSE UNCHANGED <<nbSyncPage, i>>

\* An exception raised at step `at` of the top frame.
Raise(at) ==
  LET c == Catcher(Len(stack), at) IN
  IF c = 0
  THEN /\ Abort
       /\ UNCHANGED <<nbSyncPage, i>>
  ELSE Return(c, FALSE)

\* Mutant of SyncPageCheck: an existing page is not skipped.
SyncPageCheckNoSkip ==
  /\ pc \in {"first", "second", "dependances", "templates", "pages"}
  /\ stack # <<>>
  /\ stack[Len(stack)].at = "check"
  /\ faults' = faults
  /\ IF stack[Len(stack)].title \in ForeignTitles
     THEN Return(Len(stack), FALSE)
     ELSE /\ stack' = [stack EXCEPT ![Len(stack)].at = "redirect"]
          /\ UNCHANGED <<nbSyncPage, i, pc>>
  /\ UNCHANGED <<cfgVars, worldVars, listVars, batch, modVars, dst, dstFiles,
                 nbPageSync, counts, result, log>>

\* if((not force) and newPage.exists()): return False
\* elif(newPage.site == dst): ...   else: return False
SyncPageCheck ==
  /\ InSyncPages
  /\ stack # <<>>
  /\ Top.at = "check"
  /\ \E f \in Fault :
       /\ faults' = Count(f, "check")
       /\ IF f
          THEN /\ ~options.force    \* exists() is called when force is off
               /\ Raise("check")
          ELSE IF (~options.force /\ Exists(Top.title)) \/ ~SameSite(Top.title)
          THEN Return(Len(stack), FALSE)
          ELSE /\ stack' = [stack EXCEPT ![Len(stack)].at = "redirect"]
               /\ UNCHANGED <<nbSyncPage, i, pc>>
  /\ UNCHANGED <<cfgVars, worldVars, listVars, batch, modVars, dst, dstFiles,
                 nbPageSync, counts, result, log>>

\* Mutant of SyncPageRedirect: the redirect target is not synchronized.
SyncPageRedirectNone ==
  /\ pc \in {"first", "second", "dependances", "templates", "pages"}
  /\ stack # <<>>
  /\ stack[Len(stack)].at = "redirect"
  /\ stack' = [stack EXCEPT ![Len(stack)].at = "copy"]
  /\ UNCHANGED <<cfgVars, worldVars, listVars, batch, i, nbSyncPage, modVars,
                 dst, dstFiles, pc, nbPageSync, counts, result, faults, log>>

\* if(p.isRedirectPage()):
\*   syncPage(src, dst, p.getRedirectTarget(), force, False)
\* The call raises RecursionError when the interpreter's limit is reached.
SyncPageRedirect ==
  /\ InSyncPages
  /\ stack # <<>>
  /\ Top.at = "redirect"
  /\ \E f \in Fault :
       /\ faults' = Count(f, "redirect")
       /\ IF f
          THEN Raise("redirect")
          ELSE IF srcRedirect[Top.title] = NoTitle
          THEN /\ stack' = [stack EXCEPT ![Len(stack)].at = "copy"]
               /\ UNCHANGED <<nbSyncPage, i, pc>>
          ELSE IF Len(stack) >= MaxDepth
          THEN Raise("redirect")
          ELSE /\ stack' = Append(
                    [stack EXCEPT ![Len(stack)].at = "copy"],
                    [title |-> srcRedirect[Top.title], at |-> "check"])
               /\ UNCHANGED <<nbSyncPage, i, pc>>
  /\ UNCHANGED <<cfgVars, worldVars, listVars, batch, modVars, dst, dstFiles,
                 nbPageSync, counts, result, log>>

\* Mutant of NewPageText: the text of the page the redirect leads to.
NewPageTextResolved(t) ==
  IF srcRedirect[t] # NoTitle THEN <<srcRedirect[t], "w">> ELSE SrcText(t)

\* newPage.text = p.text
NewPageText(t) == SrcText(t)

\* newPage.text = p.text ; return dst.editpage(newPage)
SyncPageCopy ==
  /\ InSyncPages
  /\ stack # <<>>
  /\ Top.at = "copy"
  /\ \E f \in Fault :
       /\ faults' = Count(f, "copy")
       /\ IF f
          THEN /\ Raise("copy")
               /\ UNCHANGED <<dst, log>>
          ELSE /\ dst' = [dst EXCEPT ![Top.title] = NewPageText(Top.title)]
               /\ log' = Append(log, [title |-> Top.title, pc |-> pc,
                                      depth |-> Len(stack), rule |-> 0])
               /\ Return(Len(stack), TRUE)
  /\ UNCHANGED <<cfgVars, worldVars, listVars, batch, modVars, dstFiles,
                 nbPageSync, counts, result>>

\* ---------------------------------------------------------- uploadFiles
NoFile == [url |-> "", text |-> NoText]
\* FilePage(site, t).get_file_url(): a shared file has one url on both sites
FileUrl(t) == IF t \in SharedFiles THEN "shared" ELSE "src"
\* FilePage(dst, t).text: the text of the local file page of dst
DstFileText(t) == dstFiles[t].text

\* One item of the loop: pageDst = f = FilePage(dst, fileTitle);
\* if(not pageDst.exists()): dst.upload(pageDst, source_url=f.get_file_url(),
\* comment=f, text=f.text).  f is a page of dst: get_file_url() raises unless
\* the file is in the shared repository.  Every exception is caught.
UploadFile ==
  /\ pc = "files"
  /\ i <= Len(batch)
  /\ \E f \in Fault :
       /\ faults' = Count(f, "upload")
       /\ IF ~f /\ dstFiles[batch[i]] = NoFile /\ batch[i] \in SharedFiles
          THEN dstFiles' = [dstFiles EXCEPT ![batch[i]] =
                              [url |-> FileUrl(batch[i]),
                               text |-> DstFileText(batch[i])]]
          ELSE dstFiles' = dstFiles
  /\ i' = i + 1
  /\ UNCHANGED <<cfgVars, worldVars, listVars, batch, nbSyncPage, stack,
                 modVars, dst, pc, nbPageSync, counts, result, log>>

UploadFilesReturn ==
  /\ pc = "files"
  /\ i > Len(batch)
  /\ Enter(StageAfter(pc))
  /\ UNCHANGED <<cfgVars, worldVars, listVars, stack, modVars, dst, dstFiles,
                 nbPageSync, counts, result, faults, log>>

\* -------------------------------------------------------- modifications
\* The regular expressions of the rules.  "(" does not compile.
ReValid(p) == p # "("

\* re.search(p, title)
ReSearch(p, title) ==
  CASE p = "." -> TRUE
    [] p = "^Template:" -> title \in TemplateTitles
    [] p = "^A$" -> title = "A"
    [] OTHER -> FALSE

\* re.sub(pattern, repl, text), a text being a sequence of words.  "^"
\* matches at the start of every text, the empty one included.
ReSub(pattern, repl, text) ==
  IF pattern = "^" THEN <<repl>> \o text
  ELSE [k \in DOMAIN text |-> IF text[k] = pattern THEN repl ELSE text[k]]

\* for s in subs: p.text = re.sub(pattern, repl, p.text)
RECURSIVE ApplySubs(_, _)
ApplySubs(subs, text) ==
  IF subs = <<>> THEN text
  ELSE ApplySubs(Tail(subs), ReSub(Head(subs).pattern, Head(subs).repl, text))

Sub(p, r) == [pattern |-> p, repl |-> r]
Rules ==
  { [pages |-> ".", substitutions |-> <<Sub("w", "k")>>],
    [pages |-> "^Template:", substitutions |-> <<Sub("w", "t")>>],
    [pages |-> "^A$", substitutions |-> <<Sub("^", "k")>>],
    [pages |-> "(", substitutions |-> <<Sub("w", "k")>>],
    [pages |-> ".", substitutions |-> <<Sub("(", "k")>>] }

\* nbMods = 0 ; if( modifications ): for mod in modifications
ApplyModifications ==
  /\ pc = "applyMods"
  /\ modIdx' = 1
  /\ nbMods' = 0
  /\ pc' = "modifications"
  /\ UNCHANGED <<cfgVars, worldVars, listVars, loopVars, todo, nbModPage, dst,
                 dstFiles, nbPageSync, counts, result, faults, log>>

\* Mutant of PageMods: the rule ranges over the titles of every phase.
PageModsAllPhases(rule) ==
  {t \in Range(pages) \cup templates \cup dependances : ReSearch(rule.pages, t)}

\* Mutant of PageMods: the rule ranges over the pages this run has written.
PageModsSynced(rule) ==
  {t \in Range(pages) : /\ ReSearch(rule.pages, t)
                        /\ \E k \in DOMAIN log : log[k].title = t}

\* filter(lambda p : re.search(mod['pages'],p), pages), as a set
PageMods(rule) == {t \in Range(pages) : ReSearch(rule.pages, t)}

\* A rule of the JSON file without its "pages" key: mod['pages'] raises
\* KeyError when the filter of line 382 is run for the first page.
NoKey == "<no key>"
KeyMissing(rule) == pages # <<>> /\ rule.pages = NoKey

\* list(set(pageMods)) runs re.search on every page and list(subs) compiles
\* every pattern, both outside any try block.
PatternError(rule) ==
  \/ pages # <<>> /\ ~ReValid(rule.pages)
  \/ \E k \in DOMAIN rule.substitutions :
       ~ReValid(rule.substitutions[k].pattern)

\* One turn of `for mod in modifications`, up to the call of modifyPages
ModifyPagesCall ==
  /\ pc = "modifications"
  /\ modIdx <= Len(cfg.modifications)
  /\ IF \/ KeyMissing(cfg.modifications[modIdx])
        \/ PatternError(cfg.modifications[modIdx])
     THEN /\ Abort
          /\ UNCHANGED <<todo, nbModPage>>
     ELSE /\ todo' = PageMods(cfg.modifications[modIdx])
          /\ nbModPage' = 0
          /\ pc' = "modifyPages"
          /\ stack' = stack
  /\ UNCHANGED <<cfgVars, worldVars, listVars, batch, i, nbSyncPage,
                 modIdx, nbMods, dst, dstFiles, nbPageSync,
                 counts, result, faults, log>>

\* dst.editpage(p) refuses a page without text
EditPage(text) == text # NoText

\* modifyPage(dst, pageTitle, subs), for the next title of list(set(pageMods))
ModifyPage ==
  /\ pc = "modifyPages"
  /\ \E t \in todo, f \in Fault :
       LET text == ApplySubs(cfg.modifications[modIdx].substitutions, dst[t]) IN
       /\ faults' = Count(f, "modify")
       /\ todo' = todo \ {t}
       /\ IF ~f /\ EditPage(text)
          THEN /\ dst' = [dst EXCEPT ![t] = text]
               /\ log' = Append(log, [title |-> t, pc |-> pc, depth |-> 0,
                                      rule |-> modIdx])
               /\ nbModPage' = nbModPage + 1
          ELSE UNCHANGED <<dst, log, nbModPage>>
  /\ UNCHANGED <<cfgVars, worldVars, listVars, loopVars, modIdx, nbMods,
                 dstFiles, pc, nbPageSync, counts, result>>

\* Mutant of ModifyPagesReturn: the counts of the rules are added up.
ModifyPagesReturnSum ==
  /\ pc = "modifyPages"
  /\ todo = {}
  /\ nbMods' = nbMods + nbModPage
  /\ modIdx' = modIdx + 1
  /\ pc' = "modifications"
  /\ UNCHANGED <<cfgVars, worldVars, listVars, loopVars, todo, nbModPage,
                 dst, dstFiles, nbPageSync, counts, result, faults,
                 log>>

\* return nbModPage, to nbMods = modifyPages(...)
ModifyPagesReturn ==
  /\ pc = "modifyPages"
  /\ todo = {}
  /\ nbMods' = nbModPage
  /\ modIdx' = modIdx + 1
  /\ pc' = "modifications"
  /\ UNCHANGED <<cfgVars, worldVars, listVars, loopVars, todo, nbModPage,
                 dst, dstFiles, nbPageSync, counts, result, faults,
                 log>>

\* return (nbPages,nbMods)
SyncAndModifyReturn ==
  /\ pc = "modifications"
  /\ modIdx > Len(cfg.modifications)
  /\ result' = <<nbPageSync, nbMods>>
  /\ pc' = "done"
  /\ UNCHANGED <<cfgVars, worldVars, listVars, loopVars, modVars, dst,
                 dstFiles, nbPageSync, counts, faults, log>>

\* ------------------------------------------------------- specifications
\* The locals of the script before main runs.
Start ==
  /\ file = 1
  /\ dst = dst0
  /\ exported = {}
  /\ pages = <<>>
  /\ files = {}
  /\ templates = {}
  /\ dependances = {}
  /\ i = 1
  /\ nbSyncPage = 0
  /\ stack = <<>>
  /\ nbPageSync = 0
  /\ counts = <<>>
  /\ modIdx = 1
  /\ todo = {}
  /\ nbModPage = 0
  /\ nbMods = 0
  /\ result = <<>>
  /\ faults = <<>>
  /\ log = <<>>

\* The two wikis a run meets: A may redirect to B, and A and B may be on the
\* destination already.
World ==
  /\ \E a \in {NoTitle, "B"} :
       srcRedirect = [t \in Titles |-> IF t = "A" THEN a ELSE NoTitle]
  /\ \E e \in SUBSET PageTitles :
       dst0 = [t \in Titles |-> IF t \in e THEN OldText ELSE NoText]
  /\ dstFiles = [t \in FileTitles |->
                   IF t = "File:H" THEN [url |-> "dst", text |-> <<"old">>]
                   ELSE NoFile]

\* One configuration file on the command line, with the JSON object cfg.
Config(ps, cs, ms) ==
  /\ \E p \in ps, c \in cs, m \in ms :
       cfg = [pages |-> p, categories |-> c, modifications |-> m]
  /\ args = <<[kind |-> "ok", cfg |-> cfg]>>

\* Every command line with a configuration of at most one rule, and the two
\* command lines without and with --force with every list of rules.
Init ==
  /\ World
  /\ budget = 0
  /\ pc = "main"
  /\ options = DEFAULT_OPTIONS
  /\ batch = <<>>
  /\ \/ /\ argv \in SUBSET Flags
        /\ Config(Seqs(PageTitles, MaxPages), Seqs(CategoryTitles, 1),
                  Seqs(Rules, 1))
     \/ /\ argv \in SUBSET {"-f"}
        /\ Config(Seqs(PageTitles, MaxPages), Seqs(CategoryTitles, 1),
                  Seqs(Rules, MaxRules))
  /\ Start

SyncPage == SyncPageCheck \/ SyncPageRedirect \/ SyncPageCopy

Next ==
  \/ Main
  \/ ProcessFromJSONFile
  \/ SyncAndModifyPages
  \/ GetFiles
  \/ GetTemplates
  \/ GetDependances
  \/ SyncAll
  \/ SyncPagesCall
  \/ SyncPage
  \/ SyncPagesReturn
  \/ UploadFile
  \/ UploadFilesReturn
  \/ ApplyModifications
  \/ ModifyPagesCall
  \/ ModifyPage
  \/ ModifyPagesReturn
  \/ SyncAndModifyReturn

Spec == Init /\ [][Next]_vars

\* The same script where provider calls raise.
InitFaulty ==
  /\ World
  /\ budget \in 1..MaxFaults
  /\ pc = "main"
  /\ options = DEFAULT_OPTIONS
  /\ batch = <<>>
  /\ argv \in SUBSET {"-f"}
  /\ Config(Seqs(PageTitles, MaxPages), {<<>>}, Seqs(Rules, 1))
  /\ Start

SpecFaulty == InitFaulty /\ [][Next]_vars

\* ------------------------------------- syncPages called twice in a row
\* return nbSyncPage, and the caller runs syncPages(src, dst, P, force) again
TwiceReturn ==
  /\ pc \in {"first", "second"}
  /\ stack = <<>>
  /\ i > Len(batch)
  /\ counts' = Append(counts, nbSyncPage)
  /\ pc' = IF pc = "first" THEN "second" ELSE "end"
  /\ i' = 1
  /\ nbSyncPage' = 0
  /\ UNCHANGED <<cfgVars, worldVars, listVars, batch, stack, modVars, dst,
                 dstFiles, nbPageSync, result, faults, log>>

\* syncPages(src, dst, P, force) for any P, any redirects, any destination
InitTwice ==
  /\ \E r \in [PageTitles -> PageTitles \cup ForeignTitles \cup {NoTitle}] :
       srcRedirect = [t \in Titles |-> IF t \in PageTitles THEN r[t] ELSE NoTitle]
  /\ \E e \in SUBSET PageTitles :
       dst0 = [t \in Titles |-> IF t \in e THEN OldText ELSE NoText]
  /\ dstFiles = [t \in FileTitles |-> NoFile]
  /\ budget \in 0..MaxFaults
  /\ pc = "first"
  /\ batch \in Seqs(PageTitles \cup ForeignTitles, MaxPages)
  /\ argv = {}
  /\ cfg = [pages |-> <<>>, categories |-> <<>>, modifications |-> <<>>]
  /\ args = <<>>
  /\ Start
  /\ \E fo \in BOOLEAN : options = [DEFAULT_OPTIONS EXCEPT !.force = fo]

NextTwice == SyncPagesCall \/ SyncPage \/ TwiceReturn

SpecTwice == InitTwice /\ [][NextTwice]_vars

\* ------------------------------------- several configuration files
\* Mutant of NextFile: main stops at the first file that ends in a handler.
NextFileStopOnError ==
  /\ pc = "done"
  /\ file < Len(args)
  /\ file' = file + 1
  /\ pc' = "process"
  /\ pages' = <<>> /\ files' = {} /\ templates' = {} /\ dependances' = {}
  /\ exported' = {}
  /\ batch' = <<>> /\ i' = 1 /\ nbSyncPage' = 0 /\ stack' = <<>>
  /\ nbPageSync' = 0
  /\ modIdx' = 1 /\ todo' = {} /\ nbModPage' = 0 /\ nbMods' = 0
  /\ result' = <<>>
  /\ UNCHANGED <<argv, options, cfg, args, worldVars, dst, dstFiles, counts,
                 faults, log>>

\* for arg in args: processFromJSONFile(arg, options).  processFromJSONFile
\* has returned, with its summary printed or from one of its handlers; the
\* next call starts with fresh locals and the same options dict.
NextFile ==
  /\ pc \in {"done", "aborted"}
  /\ file < Len(args)
  /\ file' = file + 1
  /\ pc' = "process"
  /\ pages' = <<>> /\ files' = {} /\ templates' = {} /\ dependances' = {}
  /\ exported' = {}
  /\ batch' = <<>> /\ i' = 1 /\ nbSyncPage' = 0 /\ stack' = <<>>
  /\ nbPageSync' = 0
  /\ modIdx' = 1 /\ todo' = {} /\ nbModPage' = 0 /\ nbMods' = 0
  /\ result' = <<>>
  /\ UNCHANGED <<argv, options, cfg, args, worldVars, dst, dstFiles, counts,
                 faults, log>>

\* The configuration files of a command line: a file that is no JSON, a JSON
\* object without one of its top-level keys, and JSON objects with one page
\* and no rule, a rule, or a rule without its "pages" key.
EmptyCfg == [pages |-> <<>>, categories |-> <<>>, modifications |-> <<>>]
ConfigFiles ==
  {[kind |-> k, cfg |-> EmptyCfg] : k \in {"json", "key"}}
  \cup {[kind |-> "ok",
          cfg |-> [pages |-> <<p>>, categories |-> <<>>, modifications |-> m]] :
         p \in PageTitles,
         m \in {<<>>, <<[pages |-> ".", substitutions |-> <<Sub("w", "k")>>]>>,
                <<[pages |-> NoKey, substitutions |-> <<Sub("w", "k")>>]>>}}

\* ./wikimedia_sync.py [-f] -t -d -u file1.json file2.json ...
InitFiles ==
  /\ srcRedirect = [t \in Titles |-> NoTitle]
  /\ dst0 = [t \in Titles |-> NoText]
  /\ dstFiles = [t \in FileTitles |-> NoFile]
  /\ budget \in 0..MaxFaults
  /\ pc = "main"
  /\ options = DEFAULT_OPTIONS
  /\ batch = <<>>
  /\ \E fl \in SUBSET {"-f", "-u"} : argv = fl \cup {"-t", "-d"}
  /\ args \in Seqs(ConfigFiles, MaxFiles) \ {<<>>}
  /\ cfg = EmptyCfg
  /\ Start

NextFiles == Next \/ NextFile

SpecFiles == InitFiles /\ [][NextFiles]_vars

\* ================================================================ claims
\* The titles the redirect chain of t leads to, at most n steps away.
RECURSIVE Chain(_, _)
Chain(t, n) ==
  IF n = 0 \/ srcRedirect[t] = NoTitle THEN {}
  ELSE {srcRedirect[t]} \cup Chain(srcRedirect[t], n - 1)

RedirectsFrom(t) == Chain(t, Cardinality(Titles))

\* P is a list of distinct titles of the destination site, none of them on
\* the destination before the first run; no provider call raised.
FreshBatch ==
  /\ ~options.force
  /\ faults = <<>>
  /\ \A j, k \in DOMAIN batch : batch[j] = batch[k] => j = k
  /\ \A k \in DOMAIN batch : SameSite(batch[k]) /\ dst0[batch[k]] = NoText

\* No title of P is a redirect target, at any distance, of an earlier one.
NoEarlierRedirect ==
  \A j, k \in DOMAIN batch : j < k => batch[k] \notin RedirectsFrom(batch[j])

\* C1 as claimed: with force off, two runs of syncPages over any list P of
\* fresh titles return len(P) and then 0, whatever the redirects among P.
C1_Original ==
  (pc = "end" /\ FreshBatch) => counts = <<Len(batch), 0>>

\* C1 (amended): with force off and no provider error, the second of two runs
\* of syncPages over the same list returns 0; the first returns len(P) when
\* the titles of P are distinct, of the destination site, absent from the
\* destination, and none is a redirect target of an earlier title of P.
C1_Idempotence ==
  (pc = "end" /\ ~options.force /\ faults = <<>>) =>
     /\ counts[2] = 0
     /\ (FreshBatch /\ NoEarlierRedirect) => counts[1] = Len(batch)

\* Two fresh titles, the second a redirect to the first: 2, then 0.
C1_Witness ==
  /\ pc = "end"
  /\ FreshBatch
  /\ Len(batch) = 2
  /\ srcRedirect[batch[2]] = batch[1]
  /\ counts = <<2, 0>>

\* ---------------------------------------------------------------- C2
\* The sync phases of the run are over.
SyncDone == pc \in {"files", "applyMods", "modifications", "modifyPages", "done"}
\* A modification rule has rewritten t.
Modified(t) == \E k \in DOMAIN log : log[k].title = t /\ log[k].pc = "modifyPages"

\* C2 as claimed: when source page a redirects to b and a is in the pages to
\* sync, then after the run b holds its source text on the destination,
\* whatever the destination held before and whatever force is.
C2_Original ==
  \A a, b \in Titles :
    (pc = "done" /\ cfg.modifications = <<>> /\ srcRedirect[a] = b
       /\ a \in Range(pages))
    => dst[b] = SrcText(b)

\* C2 (amended): when source page a redirects to b, a is in the pages to sync
\* and either force is on or neither a nor b was on the destination, then once
\* the sync phases are over b exists on the destination, with its own source
\* text unless a modification rule has rewritten it.
C2_RedirectPropagation ==
  \A a, b \in Titles :
    (SyncDone /\ srcRedirect[a] = b /\ a \in Range(pages)
       /\ (options.force \/ (dst0[a] = NoText /\ dst0[b] = NoText)))
    => (Exists(b) /\ (~Modified(b) => dst[b] = SrcText(b)))

\* A redirects to B, only A is configured, neither is on the destination.
C2_Witness ==
  /\ pc = "done"
  /\ srcRedirect["A"] = "B"
  /\ pages = <<"A">>
  /\ ~options.force
  /\ dst0["A"] = NoText /\ dst0["B"] = NoText
  /\ dst["B"] = SrcText("B")
  /\ dst["A"] = <<"#REDIRECT", "B">>

\* ---------------------------------------------------------------- C3
\* pages = ["A"], no categories, A a redirect to B, force off, A and B absent.
RedirectScenario ==
  /\ pc = "done"
  /\ cfg.pages = <<"A">> /\ cfg.categories = <<>>
  /\ srcRedirect["A"] = "B"
  /\ ~options.force
  /\ dst0["A"] = NoText /\ dst0["B"] = NoText

\* C3 as claimed: the scenario reports pagesSynced = 2.
C3_Original == RedirectScenario => result[1] = 2

\* C3 (amended): the scenario reports pagesSynced = 1, though A and B are both
\* written; pagesSynced counts the writes of the top-level syncPage calls only.
C3_RedirectCount ==
  /\ RedirectScenario =>
       /\ result[1] = 1
       /\ {log[k].title : k \in DOMAIN log} = {"A", "B"}
  /\ SyncDone => nbPageSync = Cardinality({k \in DOMAIN log : log[k].depth = 1})

C3_Witness ==
  /\ RedirectScenario
  /\ result[1] = 1
  /\ Exists("A") /\ Exists("B")

C5_Original ==
  (pc \notin {"main", "exit"} /\ "-t" \in argv)
  => (~options.templatesSync /\ ~options.templatesDepSync)

\* ---------------------------------------------------------------- C6
\* C6: for every command line, templatesDepSync implies templatesSync in the
\* options, and the dependances are computed and synced only once the
\* templates have been computed.
C6_OptionCoupling ==
  /\ options.templatesDepSync => options.templatesSync
  /\ "dependances" \in exported => "templates" \in exported
  /\ pc = "dependances" => "templates" \in exported

\* -t alone: the coherence fix has switched the templates back on.
C6_Witness ==
  /\ pc = "dependances"
  /\ "-t" \in argv /\ "-d" \notin argv
  /\ options.templatesDepSync /\ options.templatesSync
  /\ "templates" \in exported

\* ---------------------------------------------------------------- C7
\* C7: when a call of syncPage returns true, the destination page of its title
\* holds the source text of that title.
C7_VerbatimCopy ==
  /\ [][(InSyncPages /\ nbSyncPage' = nbSyncPage + 1)
        => dst'[batch[i]] = SrcText(batch[i])]_vars
  /\ [][(InSyncPages /\ Len(log') = Len(log) + 1)
        => dst'[Top.title] = SrcText(Top.title)]_vars

\* force on: an existing page whose source is a redirect has been overwritten.
C7_Witness ==
  /\ pc = "first"
  /\ i = 2 /\ nbSyncPage = 1
  /\ options.force
  /\ dst0[batch[1]] = OldText
  /\ srcRedirect[batch[1]] # NoTitle
  /\ dst[batch[1]] = <<"#REDIRECT", srcRedirect[batch[1]]>>

\* ---------------------------------------------------------------- C8
\* t was synced in the templates or the dependances phase and is no page of
\* the page list.
TemplateOnly(t) ==
  /\ t \notin Range(pages)
  /\ \E k \in DOMAIN log :
       log[k].title = t /\ log[k].pc \in {"templates", "dependances"}

\* C8 as claimed: a rule whose selector matches a title synced in the
\* templates or dependances phase rewrites that destination page.
C8_Original ==
  \A t \in Titles :
    (pc = "done" /\ Len(cfg.modifications) = 1 /\ TemplateOnly(t)
       /\ ReSearch(cfg.modifications[1].pages, t))
    => dst[t] = ApplySubs(cfg.modifications[1].substitutions, SrcText(t))

\* C8 (amended): the rules range over the page list only (the configured
\* pages, the category titles and the category members): every page a rule
\* rewrites is in that list, a title synced only in the templates or
\* dependances phase keeps its source text even when the selector matches it,
\* and a matching title of the page list is rewritten.
C8_PageListOnly ==
  /\ \A k \in DOMAIN log :
       log[k].pc = "modifyPages" => log[k].title \in Range(pages)
  /\ \A t \in Titles :
       (pc = "done" /\ TemplateOnly(t)) => dst[t] = SrcText(t)
  /\ \A t \in Range(pages) :
       (pc = "done" /\ Len(cfg.modifications) = 1
          /\ ReSearch(cfg.modifications[1].pages, t))
       => Modified(t)

\* One rule that matches every title: page A is rewritten, template T, synced
\* in the templates phase, is not.
C8_Witness ==
  /\ pc = "done"
  /\ Len(cfg.modifications) = 1
  /\ cfg.modifications[1].pages = "."
  /\ TemplateOnly("Template:T")
  /\ dst["Template:T"] = <<"Template:T", "w">>
  /\ Modified("A")

\* ---------------------------------------------------------------- C9
\* The rules applied in order to the text of title t.
RECURSIVE ApplyRules(_, _, _)
ApplyRules(rules, t, text) ==
  IF rules = <<>> THEN text
  ELSE ApplyRules(Tail(rules), t,
                  IF ReSearch(Head(rules).pages, t)
                  THEN ApplySubs(Head(rules).substitutions, text)
                  ELSE text)

\* syncPage skips t: it is on the destination and force is off.
Skipped(t) == ~options.force /\ dst0[t] # NoText

\* C9 as claimed: a title whose syncPage call was skipped is not rewritten by
\* the modification rules; its destination text is unchanged by the run.
C9_Original ==
  \A t \in Titles : (pc = "done" /\ Skipped(t)) => dst[t] = dst0[t]

\* C9 (amended): the rules touch the titles of the page list whether or not
\* this run has synced them: a skipped title of the page list is rewritten by
\* every rule that matches it, and a skipped title outside the page list is
\* unchanged by the run.
C9_PageListRewritten ==
  \A t \in Titles :
    (pc = "done" /\ Skipped(t))
    => dst[t] = IF t \in Range(pages)
                THEN ApplyRules(cfg.modifications, t, dst0[t])
                ELSE dst0[t]

\* A was on the destination, force is off, and a rule has rewritten it.
C9_Witness ==
  /\ pc = "done"
  /\ Skipped("A")
  /\ "A" \in Range(pages)
  /\ dst0["A"] = <<"old", "w">>
  /\ dst["A"] = <<"old", "k">>

\* --------------------------------------------------------------- C10
\* C10 as claimed: an invalid pattern in one rule fails pages, not the run:
\* without a provider error the run does not end in the handler of
\* processFromJSONFile, it returns (pagesSynced, pagesModified).
C10_Original == pc = "aborted" => faults # <<>>

\* --------------------------------------------------------------- C11
SyncPhases == {"dependances", "templates", "pages"}
\* The writes of title t made in phase ph.
Writes(ph, t) ==
  Cardinality({k \in DOMAIN log : log[k].pc = ph /\ log[k].title = t})
\* How often title t occurs in the list phase ph iterates.
Occurs(ph, t) ==
  CASE ph = "pages" -> Cardinality({k \in DOMAIN pages : pages[k] = t})
    [] ph = "templates" -> IF t \in templates THEN 1 ELSE 0
    [] ph = "dependances" -> IF t \in dependances THEN 1 ELSE 0
\* How often the list of phase ph holds a title whose source page redirects
\* to t.
OccursAsTarget(ph, t) ==
  LET from == {a \in Titles : srcRedirect[a] = t}
      RECURSIVE Sum(_)
      Sum(S) == IF S = {} THEN 0
                ELSE LET a == CHOOSE x \in S : TRUE
                     IN Occurs(ph, a) + Sum(S \ {a})
  IN Sum(from)

\* No source title leads back to itself through redirects.
NoCycle == \A t \in Titles : t \notin RedirectsFrom(t)

StageRank(p) ==
  CASE p = "dependances" -> 1
    [] p = "templates" -> 2
    [] p = "pages" -> 3
    [] p = "files" -> 4
    [] p \in {"applyMods", "modifications", "modifyPages"} -> 5
    [] p = "done" -> 6
    [] OTHER -> 0

\* C12: the dependances phase, the templates phase, the pages phase, the file
\* uploads and the modification rules run in that order: a run never goes
\* back to an earlier stage, it leaves a sync phase or the uploads only when
\* every item of the list has been handled and no syncPage call is open,
\* destination pages are written in stage order, files are uploaded only in
\* the upload stage, and a stage that is switched off is never entered.
C12_PhaseOrdering ==
  /\ [][(StageRank(pc) >= 1 /\ pc' # "aborted")
        => StageRank(pc') >= StageRank(pc)]_vars
  /\ [][(pc \in SyncPhases \cup {"files"} /\ pc' # pc)
        => (stack = <<>> /\ i > Len(batch)
              /\ StageRank(pc') > StageRank(pc))]_vars
  /\ [][dstFiles' # dstFiles => pc = "files"]_vars
  /\ [][dst' # dst => pc \in SyncPhases \cup {"modifyPages"}]_vars
  /\ [](\A j, k \in DOMAIN log :
          j < k => StageRank(log[j].pc) <= StageRank(log[k].pc))
  /\ [](/\ pc = "dependances" => options.templatesDepSync
        /\ pc = "templates" => options.templatesSync
        /\ pc = "files" => options.filesUpload)

\* A run that wrote in every stage: template D in the dependances phase,
\* template T in the templates phase, page A in the pages phase, file F in
\* the uploads, and A again by a modification rule.
C12_Witness ==
  /\ pc = "done"
  /\ [k \in DOMAIN log |-> <<log[k].pc, log[k].title>>] =
       << <<"dependances", "Template:D">>, <<"templates", "Template:T">>,
          <<"pages", "A">>, <<"modifyPages", "A">> >>
  /\ dstFiles["File:F"] # NoFile

\* --------------------------------------------------------------- C13
\* The page writes made while rule number r was applied.
RuleWrites(r) ==
  Cardinality({k \in DOMAIN log :
                 log[k].pc = "modifyPages" /\ log[k].rule = r})

\* C13: the pagesModified value a run returns is the number of page writes
\* made while the last rule of the list was applied, and 0 when there is no
\* rule; it is not the total over the rules.
C13_LastRuleCount ==
  pc = "done" =>
    result[2] = IF cfg.modifications = <<>> THEN 0
                ELSE RuleWrites(Len(cfg.modifications))

\* Two rules, the first rewrote pages, the second matched none: 0 is returned.
C13_Witness ==
  /\ pc = "done"
  /\ Len(cfg.modifications) = 2
  /\ RuleWrites(1) = 2
  /\ RuleWrites(2) = 0
  /\ result[2] = 0

\* --------------------------------------------------------------- C14
\* What the source site holds for file title t: FilePage(src, t).
SrcFile(t) == [url |-> IF t \in SharedFiles THEN "shared" ELSE "src",
               text |-> <<t, "description">>]

\* C14 as claimed: once the uploads are over, and no provider call raised,
\* every file of the list that was not on the destination is there with the
\* url and the description text of the source's file page.
C14_Original ==
  \A t \in FileTitles :
    (pc = "done" /\ options.filesUpload /\ t \in files /\ faults = <<>>
       /\ t # "File:H")
    => dstFiles[t] = SrcFile(t)

\* --------------------------------------------------------------- C15
\* The file being processed is no JSON or lacks a top-level key.
BadFile == args[file].kind # "ok"
\* The file being processed has a rule without its "pages" key.
BadRule ==
  /\ args[file].kind = "ok"
  /\ \E k \in DOMAIN args[file].cfg.modifications :
       args[file].cfg.modifications[k].pages = NoKey
\* processFromJSONFile has returned.
FileEnded == pc \in {"done", "aborted"}

\* C15 as claimed: a configuration error, a missing key of a rule included,
\* leaves the destination as it was when the file's run began.
C15_Original ==
  [][(pc # "main" /\ (BadFile \/ BadRule))
     => (dst' = dst /\ dstFiles' = dstFiles)]_vars

\* C15 (amended): a file that is no JSON or lacks a top-level key, a failed
\* login and a rule without a key each end the run of that file only: the
\* next file, if there is one, is processed next, with the same options.  No
\* destination write is made for a file that is no JSON or lacks a top-level
\* key, nor after a failed login; a key missing in a modification rule is
\* found when the rule is applied, after the sync phases have written.
C15_FileIsolation ==
  /\ [](FileEnded /\ file < Len(args) => ENABLED NextFile)
  /\ [][FileEnded => (file' = file + 1 /\ pc' = "process"
                        /\ dst' = dst /\ dstFiles' = dstFiles)]_vars
  /\ [][pc # "main" => options' = options]_vars
  /\ [][(pc # "main" /\ BadFile)
        => (dst' = dst /\ dstFiles' = dstFiles)]_vars
  /\ [][(pc = "process" /\ BadFile) => pc' = "aborted"]_vars
  /\ [][(pc = "sync" /\ faults' # faults)
        => (pc' = "aborted" /\ dst' = dst /\ dstFiles' = dstFiles)]_vars
  /\ [](pc = "aborted" /\ BadRule /\ faults = <<>>
          => \E k \in DOMAIN log : log[k].pc = "pages")

\* The first file is no JSON; the second has been processed to its end and
\* its page is on the destination.
C15_Witness ==
  /\ Len(args) = 2
  /\ args[1].kind = "json"
  /\ args[2].kind = "ok"
  /\ file = 2
  /\ pc = "done"
  /\ result = <<1, 0>>
  /\ Exists(args[2].cfg.pages[1])

\* --------------------------------------------------------------- C16
\* C16: when force is off and the destination page of the title exists, the
\* call of syncPage ends at its existence check: it returns false (a
\* top-level call is not counted and the loop moves on) and writes nothing,
\* neither the title nor the redirect target of its source page.
C16_SkipNoWrite ==
  [][(InSyncPages /\ stack # <<>> /\ Top.at = "check"
        /\ ~options.force /\ dst[Top.title] # NoText)
     => /\ dst' = dst /\ dstFiles' = dstFiles /\ log' = log
        /\ stack' = SubSeq(stack, 1, Len(stack) - 1)
        /\ nbSyncPage' = nbSyncPage
        /\ i' = IF Len(stack) = 1 THEN i + 1 ELSE i]_vars

\* The first title is on the destination and its source page redirects to a
\* title that is not: the call has returned, nothing was counted or written.
C16_Witness ==
  /\ pc = "first"
  /\ ~options.force
  /\ Len(batch) >= 1 /\ i = 2 /\ stack = <<>>
  /\ dst0[batch[1]] # NoText
  /\ srcRedirect[batch[1]] \in PageTitles
  /\ dst0[srcRedirect[batch[1]]] = NoText
  /\ nbSyncPage = 0
  /\ faults = <<>>
  /\ dst = dst0 /\ log = <<>>

\* --------------------------------------------------------------- C17
\* The frames of syncPage below the top one wait at line 173 for the call on
\* their redirect target; they have not written yet.
WaitingAtRedirect ==
  \A k \in 1..(Len(stack) - 1) :
    /\ stack[k].at = "copy"
    /\ srcRedirect[stack[k].title] = stack[k + 1].title

\* C17 as claimed: the target of every redirect this run has written is on
\* the destination.
C17_Original ==
  \A k \in DOMAIN log :
    srcRedirect[log[k].title] # NoTitle => Exists(srcRedirect[log[k].title])

\* C17 (amended): the call of syncPage on the redirect target has returned
\* before the redirect is written (the frames below the top one wait at line
\* 173 and only the top frame writes).  Its result is ignored: the target is
\* on the destination when the redirect is written provided that no provider
\* call raised, the target is a title of the destination site and the
\* redirects from the title do not lead back to it.
C17_RedirectOrder ==
  /\ WaitingAtRedirect
  /\ faults = <<>> =>
       \A k \in DOMAIN log :
         LET a == log[k].title
             b == srcRedirect[a]
         IN (b # NoTitle /\ SameSite(b) /\ a \notin RedirectsFrom(a))
            => Exists(b)

\* A redirects to B, both absent: B was written by the inner call, then A.
C17_Witness ==
  /\ pc = "first"
  /\ batch = <<"A">>
  /\ srcRedirect["A"] = "B" /\ srcRedirect["B"] = NoTitle
  /\ [k \in DOMAIN log |-> <<log[k].title, log[k].depth>>] =
       << <<"B", 2>>, <<"A", 1>> >>

\* --------------------------------------------------------------- C18
\* C18 as claimed: modifyPage writes a page only when the page is on the
\* destination; an absent title is neither created nor counted.
C18_Original ==
  [][pc = "modifyPages"
     => \A t \in Titles :
          dst[t] = NoText
          => /\ dst'[t] = NoText
             /\ (t \in todo /\ t \notin todo') => nbModPage' = nbModPage]_vars

\* --------------------------------------------------------------- C19
\* C19 as claimed: within one top-level call of syncPage no title is visited
\* more than once, so the frames of the recursion hold distinct titles.
C19_Original ==
  \A j, k \in DOMAIN stack : stack[j].title = stack[k].title => j = k

====
